---- MODULE Spec2Model ----
(***************************************************************************)
(* Model of the TOTP bot (src/bot/main.py): the restart loop, the message  *)
(* handler with every chat-platform and gateway call it makes, and the two *)
(* command patterns CMD_HELP and CMD_MFA; and of the gateway               *)
(* (src/gateway/app.py): the label map, the bearer check and the routes    *)
(* /code and /totp/<client>/<service>.                                     *)
(*                                                                         *)
(* A text is a sequence of characters, each character a one-element        *)
(* string; "U+00E9" stands for a letter outside ASCII (a word character    *)
(* for \b and \w that is not in [a-z0-9_]).                                *)
(*                                                                         *)
(* The handler is given events of the shape it reads: event["type"] and    *)
(* event["message"].  Every call on the chat client ends in a success      *)
(* result, an error result or an exception; the gateway request ends in a  *)
(* network error or in a status with a body.  The event queue belongs to   *)
(* the registration made by call_on_each_message: it starts empty, takes   *)
(* the events that arrive while the registration is live, and is gone with *)
(* the client when an exception unwinds main().                            *)
(*                                                                         *)
(* Spec is the running bot.  ParseSpec applies lines 155 and 168-177 to    *)
(* texts drawn from ParseTexts.  GatewaySpec starts the gateway in an      *)
(* environment drawn from Envs and has it answer requests; the code        *)
(* generator (pyotp) is taken as given: it refuses a secret that is not    *)
(* base32 and a period that is not positive, and otherwise formats the     *)
(* truncated HMAC value of the time step, which is drawn from HotpValues.  *)
(***************************************************************************)
EXTENDS Integers, Sequences, FiniteSets, TLC

\* ------------------------------------------------------------------------
\* Characters and str methods
\* ------------------------------------------------------------------------
UC == <<"A","B","C","D","E","F","G","H","I","J","K","L","M",
        "N","O","P","Q","R","S","T","U","V","W","X","Y","Z">>
LC == <<"a","b","c","d","e","f","g","h","i","j","k","l","m",
        "n","o","p","q","r","s","t","u","v","w","x","y","z">>
Digits == {"0","1","2","3","4","5","6","7","8","9"}
OtherLetters == {"U+00E9"}

Range(f) == {f[i] : i \in DOMAIN f}

LowerChar(ch) ==
    IF \E i \in DOMAIN UC : UC[i] = ch
    THEN LC[CHOOSE i \in DOMAIN UC : UC[i] = ch]
    ELSE ch

\* str.lower()
Lower(t) == [i \in 1..Len(t) |-> LowerChar(t[i])]

\* \s
IsSpace(ch) == ch \in {" ", "\t", "\n"}

\* the class [a-z0-9_]
SegChars == Range(LC) \cup Digits \cup {"_"}
IsSegChar(ch) == ch \in SegChars

\* \w (str pattern: letters of any script, digits, underscore)
WordChars == Range(LC) \cup Range(UC) \cup Digits \cup {"_"} \cup OtherLetters
IsWordChar(ch) == ch \in WordChars

Sub(t, i, n) == SubSeq(t, i, i + n - 1)

\* str.strip()
RECURSIVE LStrip(_)
LStrip(t) == IF t # <<>> /\ IsSpace(Head(t)) THEN LStrip(Tail(t)) ELSE t
RECURSIVE RStrip(_)
RStrip(t) == IF t # <<>> /\ IsSpace(t[Len(t)]) THEN RStrip(Sub(t, 1, Len(t) - 1)) ELSE t
Strip(t) == RStrip(LStrip(t))

\* ------------------------------------------------------------------------
\* Regular-expression primitives (Python re, str patterns)
\* ------------------------------------------------------------------------
\* a literal matched at position i under re.IGNORECASE (lit is lower case)
LitAt(t, i, lit) ==
    /\ i >= 1
    /\ i + Len(lit) - 1 <= Len(t)
    /\ \A k \in 1..Len(lit) : LowerChar(t[i + k - 1]) = lit[k]

\* \b between position j and position j+1 (j = 0: start, j = Len: end)
WordBoundary(t, j) ==
    (j >= 1 /\ j <= Len(t) /\ IsWordChar(t[j]))
        # (j + 1 <= Len(t) /\ IsWordChar(t[j + 1]))

\* (^|\s) ending just before position i
StartOrSpaceBefore(t, i) == i = 1 \/ IsSpace(t[i - 1])

\* (\s|$) starting at position j ($ also matches before a final newline)
SpaceOrEndAt(t, j) ==
    \/ j = Len(t) + 1
    \/ (j <= Len(t) /\ IsSpace(t[j]))

L_mfa == <<"!","m","f","a">>
L_mfa_help == <<"!","m","f","a","-","h","e","l","p">>
L_mfa_dash == <<"!","m","f","a","-">>
L_help == <<"h","e","l","p">>

\* one alternative of CMD_HELP: (^|\s)<lit>(\s|$)
HelpAlt(t, lit) ==
    \E i \in 1..Len(t) :
        /\ StartOrSpaceBefore(t, i)
        /\ LitAt(t, i, lit)
        /\ SpaceOrEndAt(t, i + Len(lit))

\* CMD_HELP.search(text)
CMD_HELP_search(t) == HelpAlt(t, L_mfa) \/ HelpAlt(t, L_mfa_help)

\* the ways CMD_MFA matches with its "!" at position i: the lengths <<n1, n2>>
\* of the two groups
MfaGroupsAt(t, i) ==
    LET p == i + Len(L_mfa_dash)
    IN  IF ~ LitAt(t, i, L_mfa_dash) THEN {}
        \* (?!help\b)
        ELSE IF LitAt(t, p, L_help) /\ WordBoundary(t, p + Len(L_help) - 1) THEN {}
        ELSE { g \in (1..Len(t)) \X (1..Len(t)) :
                 LET q == p + g[1] + 1
                 IN  /\ q + g[2] - 1 <= Len(t)
                     /\ \A k \in p..(p + g[1] - 1) : IsSegChar(LowerChar(t[k]))
                     /\ t[p + g[1]] = "-"
                     /\ \A k \in q..(q + g[2] - 1) : IsSegChar(LowerChar(t[k]))
                     /\ WordBoundary(t, q + g[2] - 1) }

NoMatch == [matched |-> FALSE]

\* the match the engine reports at position i: both groups greedy
MfaMatchAt(t, i) ==
    LET gs == MfaGroupsAt(t, i)
        n1 == CHOOSE n \in {g[1] : g \in gs} : \A g \in gs : g[1] <= n
        n2 == CHOOSE n \in {g[2] : g \in {h \in gs : h[1] = n1}} :
                  \A g \in {h \in gs : h[1] = n1} : g[2] <= n
        p  == i + Len(L_mfa_dash)
    IN  [matched |-> TRUE, g1 |-> Sub(t, p, n1), g2 |-> Sub(t, p + n1 + 1, n2)]

\* CMD_MFA.search(t): the leftmost position that matches
CMD_MFA_search_last(t) ==
    LET at == {i \in 1..Len(t) : MfaGroupsAt(t, i) # {}}
    IN  IF at = {} THEN NoMatch
        ELSE MfaMatchAt(t, CHOOSE i \in at : \A j \in at : j <= i)
CMD_MFA_search(t) ==
    LET at == {i \in 1..Len(t) : MfaGroupsAt(t, i) # {}}
    IN  IF at = {} THEN NoMatch
        ELSE MfaMatchAt(t, CHOOSE i \in at : \A j \in at : i <= j)

\* The command the handler acts on for a (stripped) text: lines 168-177
Help == [cmd |-> "Help"]
NotACommand == [cmd |-> "None"]
GenerateCode(c, s) == [cmd |-> "GenerateCode", client |-> c, service |-> s]

parse_mfa_first(text) ==
    LET m == CMD_MFA_search(Lower(text))
    IN  IF m.matched THEN GenerateCode(m.g1, m.g2)
        ELSE IF CMD_HELP_search(text) THEN Help
        ELSE NotACommand

parse(text) ==
    IF CMD_HELP_search(text) THEN Help
    ELSE LET m == CMD_MFA_search(Lower(text))
         IN  IF ~ m.matched THEN NotACommand
             ELSE GenerateCode(m.g1, m.g2)


\* ------------------------------------------------------------------------
\* Configuration and fixtures
\* ------------------------------------------------------------------------
None == "None"

AUDIT_TOPIC == "channel events"
FALLBACK_STREAM == <<"g","e","n","e","r","a","l">>
FALLBACK_MARKER == "(logged here)"

SERVICE_DISPLAY ==
    [key \in {<<"a","w","s">>} |-> <<"A","W","S">>]
ServiceDisplay(service) ==
    IF service \in DOMAIN SERVICE_DISPLAY THEN SERVICE_DISPLAY[service] ELSE service

\* bounds of the model
MaxEvents == 2

\* the chat platform: the streams that may exist, the users it knows
S_a == <<"a">>
StreamNames == {S_a, FALLBACK_STREAM}
\* user ids; Uid.none stands for Python's None where a user id is expected
Uid == [none |-> 0, alice |-> 1, bot |-> 2, carol |-> 3, ghost |-> 4, other_bot |-> 5]
HumanIds == {Uid.alice, Uid.carol}

\* client.get_users()["members"]
Members ==
    { [email |-> "alice@example.com", user_id |-> Uid.alice, full_name |-> "Alice"],
      [email |-> "carol@example.com", user_id |-> Uid.carol, full_name |-> None] }

\* email.split("@")[0]
LocalPart(email) ==
    CASE email = "alice@example.com" -> "alice"
      [] email = "carol@example.com" -> "carol"
      [] email = "ghost@example.com" -> "ghost"
      [] email = "totp-bot@example.com" -> "totp-bot"
      [] OTHER -> "other-bot"

\* who may author a message
Senders ==
    { [sender_email |-> "alice@example.com", sender_id |-> Uid.alice, sender_is_bot |-> FALSE],
      [sender_email |-> "ghost@example.com", sender_id |-> Uid.ghost, sender_is_bot |-> FALSE],
      [sender_email |-> "totp-bot@example.com", sender_id |-> Uid.bot, sender_is_bot |-> TRUE],
      [sender_email |-> "totp-bot@example.com", sender_id |-> Uid.bot, sender_is_bot |-> FALSE],
      [sender_email |-> "other-bot@example.com", sender_id |-> Uid.other_bot, sender_is_bot |-> TRUE] }

\* the mention markers of the bot and of another user
Mention == <<"@","*","*","T","*","*">>
OtherMention == <<"@","*","*","C","*","*">>
Sp == <<" ">>

\* message contents the handler is exercised with
HandlerTexts ==
    { <<"!","m","f","a","-","b","-","a","w","s">>,
      Mention \o Sp \o <<"!","M","F","A","-","A","-","x","-","y">>,
      <<"h","e","l","p">>,
      Sp \o Mention \o Sp \o <<"!","M","f","a","-","H","e","l","p","\n">>,
      <<"!","m","f","a">>,
      <<"h","e","l","l","o">> \o Sp \o Mention,
      <<"!","m","f","a">> \o Sp \o <<"!","m","f","a","-","a","-","x">>,
      <<"!","m","f","a","-","h","e","l","p","-","x">>,
      OtherMention \o Sp \o <<"!","m","f","a","-","a","-","x">>,
      <<>> }

NoMessage == [content |-> <<>>, type |-> None, sender_email |-> None,
              sender_id |-> Uid.none, sender_is_bot |-> FALSE]

\* the events the transport may deliver
Events ==
    { [type |-> "heartbeat", message |-> NoMessage] } \cup
    { [type |-> "message",
       message |-> [content |-> t, type |-> ty, sender_email |-> s.sender_email,
                    sender_id |-> s.sender_id, sender_is_bot |-> s.sender_is_bot]] :
         t \in HandlerTexts, ty \in {"private", "stream"}, s \in Senders }

\* what the gateway may answer to GET /totp/<client>/<service>
\* a timestamp is its first 19 characters and the rest
IsoNow == <<"2024-01-01T00:00:00", ".123456+00:00">>
FullBody == [has_code |-> TRUE, code |-> "123456", valid_for |-> 30, timestamp |-> IsoNow]
IncompleteBody == [has_code |-> FALSE, code |-> None, valid_for |-> 30, timestamp |-> IsoNow]
GatewayOutcomes ==
    { [kind |-> "network_error"],
      [kind |-> "status", status |-> 404],
      [kind |-> "status", status |-> 500],
      [kind |-> "status", status |-> 200, body |-> "not json"],
      [kind |-> "status", status |-> 200, body |-> "json", json |-> "array"],
      [kind |-> "status", status |-> 200, body |-> "json", json |-> "object", data |-> FullBody],
      [kind |-> "status", status |-> 200, body |-> "json", json |-> "object", data |-> IncompleteBody] }

\* how a chat-platform call may end
CallOutcomes == {"success", "error", "raise"}

\* ------------------------------------------------------------------------
\* State
\* ------------------------------------------------------------------------
VARIABLES
    streams,        \* platform: names of the streams that exist
    subs,           \* platform: subscribers of each stream
    nextId,         \* transport: number of events that have arrived
    queue,          \* transport: ids queued for the registered callback
    pc,             \* position in the __main__ loop / main / handler
    me_id,          \* main: me_id
    ev,             \* handler: the event in hand, with its id
    label_client, label_service, user_id, display_name,
    fetched,        \* handler: (ok, err, data) of fetch_totp
    audit,          \* handler: denied / msg_txt / log_txt
    dms,            \* send_dm calls made for the event in hand
    posts,          \* send_stream_message calls made for the event in hand
    lookups,        \* get_subscribers calls made for the event in hand
    fetches,        \* fetch_totp calls made for the event in hand
    hstate,         \* "idle", "running", "returned" or "raised"
    handled,        \* ids the handler was invoked with, in order
    failed,         \* ids whose handler raised
    p_text, p_cmd,  \* input and result of the command patterns
    g_env,          \* gateway: the process environment (LABELS, API_KEY, ...)
    g_req,          \* gateway: the request being answered
    g_resp,         \* gateway: the response to it
    g_served        \* gateway: number of requests answered

platform == <<streams, subs>>
transport == <<nextId, queue>>
locals == <<label_client, label_service, user_id, display_name, fetched, audit>>
hist == <<dms, posts, lookups, fetches>>
record == <<handled, failed>>
parsev == <<p_text, p_cmd>>
gatewayv == <<g_env, g_req, g_resp, g_served>>
vars == <<streams, subs, nextId, queue, pc, me_id, ev, label_client, label_service,
          user_id, display_name, fetched, audit, dms, posts, lookups, fetches,
          hstate, handled, failed, p_text, p_cmd, g_env, g_req, g_resp, g_served>>

NoEvent == [id |-> 0, event |-> [type |-> "none", message |-> NoMessage]]
NoBody == [has_code |-> FALSE, code |-> None, valid_for |-> 0, timestamp |-> <<"", "">>]
NoFetch == [ok |-> FALSE, err |-> <<>>, is_dict |-> FALSE, data |-> NoBody]
NoResult == [cmd |-> "unparsed"]

PlatformStates ==
    { p \in [streams : SUBSET StreamNames, subs : [StreamNames -> SUBSET HumanIds]] :
        /\ p.subs[FALLBACK_STREAM] = {}
        /\ (S_a \notin p.streams => p.subs[S_a] = {})
        /\ (S_a \in p.streams => Uid.carol \in p.subs[S_a]) }

\* the gateway before its first request
Unset == [set |-> FALSE, value |-> <<>>]
NoEnv == [LABELS |-> Unset, API_KEY |-> Unset, TOTP_PERIOD |-> Unset, TOTP_DIGITS |-> Unset]
NoRequest == [route |-> "none", client |-> <<>>, service |-> <<>>, label |-> <<>>,
              authorization |-> Unset]
NoResponse == [status |-> 0, body |-> [kind |-> "none"]]

GatewayIdle ==
    /\ g_env = NoEnv /\ g_req = NoRequest /\ g_resp = NoResponse /\ g_served = 0

HandlerIdle ==
    /\ ev = NoEvent
    /\ label_client = <<>> /\ label_service = <<>>
    /\ user_id = Uid.none /\ display_name = None
    /\ fetched = NoFetch /\ audit = <<>>
    /\ dms = <<>> /\ posts = <<>> /\ lookups = <<>> /\ fetches = <<>>
    /\ hstate = "idle"

Init ==
    /\ \E p \in PlatformStates : streams = p.streams /\ subs = p.subs
    /\ nextId = 0 /\ queue = <<>>
    /\ pc = "start" /\ me_id = Uid.none
    /\ HandlerIdle
    /\ handled = <<>> /\ failed = {}
    /\ p_text = <<>> /\ p_cmd = NoResult
    /\ GatewayIdle


\* ------------------------------------------------------------------------
\* Helpers of the handler
\* ------------------------------------------------------------------------
\* needle in text
Contains(text, needle) ==
    \E i \in 1..(Len(text) - Len(needle) + 1) : Sub(text, i, Len(needle)) = needle

L_mention == <<"@","*","*">>

\* lines 154-158: the fields the handler reads from the event
MsgText(e) == Strip(e.message.content)

\* line 165: "@**" in text
Mentions(e) == Contains(MsgText(e), L_mention)

\* lines 168-177 applied to the text of each event
Command == [e \in Events |-> parse(MsgText(e))]
HelpFound == [e \in Events |-> CMD_HELP_search(MsgText(e))]
MfaFound == [e \in Events |-> CMD_MFA_search(Lower(MsgText(e))).matched]
MentionIn == [e \in Events |-> Mentions(e)]

\* lines 151-166: the event is dropped before any command is looked for
Dropped(e, me) ==
    \/ e.type # "message"
    \/ (me # Uid.none /\ e.message.sender_id = me) \/ e.message.sender_is_bot
    \/ (e.message.type # "private" /\ ~ MentionIn[e])

\* lines 169-177: where the handler goes with the command it found
AfterParseHelpOnNone(cmd) ==
    CASE cmd.cmd = "Help" -> "help_dm"
      [] cmd.cmd = "GenerateCode" -> "list_streams"
      [] OTHER -> "help_dm"
AfterParseSilentHelp(cmd) ==
    CASE cmd.cmd = "Help" -> "returned"
      [] cmd.cmd = "GenerateCode" -> "list_streams"
      [] OTHER -> "returned"
AfterParseAuditFirst(cmd) ==
    CASE cmd.cmd = "Help" -> "help_dm"
      [] cmd.cmd = "GenerateCode" -> "audit_primary"
      [] OTHER -> "returned"
AfterParse(cmd) ==
    CASE cmd.cmd = "Help" -> "help_dm"
      [] cmd.cmd = "GenerateCode" -> "list_streams"
      [] OTHER -> "returned"

\* get_user_id_and_name, given how client.get_users() ended
GetUserIdAndName(outcome, email) ==
    LET found == {m \in Members : m.email = email}
    IN  IF outcome = "success" /\ found # {}
        THEN LET m == CHOOSE m \in found : TRUE
             IN  [user_id |-> m.user_id,
                  name |-> IF m.full_name # None THEN m.full_name ELSE LocalPart(email)]
        ELSE [user_id |-> Uid.none, name |-> LocalPart(email)]

\* what client.get_subscribers(stream=name) returns
GetSubscribers(outcome, name) ==
    IF outcome = "success" /\ name \in streams
    THEN [result |-> "success", subscribers |-> subs[name]]
    ELSE [result |-> "error", subscribers |-> {}]

\* in_client_stream, given the answer of get_subscribers
InClientStreamAnyMember(res, uid) == res.result = "success" /\ res.subscribers # {}
InClientStream(res, uid) ==
    IF res.result # "success" THEN FALSE ELSE uid \in res.subscribers

\* fetch_totp, given how the request ended: (ok, err, data)
FetchTotp(o) ==
    LET Failure(e) == [ok |-> FALSE, err |-> e, is_dict |-> FALSE, data |-> NoBody]
    IN  IF o.kind = "network_error" THEN Failure(<<"Gateway error", "connection">>)
        ELSE IF o.status = 404 THEN Failure(<<"Unknown label.">>)
        ELSE IF o.status >= 400 THEN Failure(<<"Gateway error", "status">>)
        ELSE IF o.body # "json" THEN Failure(<<"Gateway error", "json">>)
        ELSE IF o.json # "object"
            THEN [ok |-> TRUE, err |-> <<>>, is_dict |-> FALSE, data |-> NoBody]
        ELSE [ok |-> TRUE, err |-> <<>>, is_dict |-> TRUE, data |-> o.data]

\* ts[:19]
First19(ts) == ts[1]

\* the messages of the handler
HELP_TEXT == [kind |-> "help", body |-> <<"usage", AUDIT_TOPIC, FALLBACK_STREAM>>]
DeniedDm(c, s) == [kind |-> "denied", body |-> <<"Access Denied", c, s>>]
ErrorDm(err) == [kind |-> "error", body |-> err]
CodeDm(c, s, data) ==
    [kind |-> "code",
     body |-> <<ServiceDisplay(s), c,
                IF data.has_code THEN data.code ELSE "error",
                data.valid_for, First19(data.timestamp)>>]

DeniedLine(name, c, s) == <<"denied", name, ServiceDisplay(s), c>>
FailedLine(name, s, err) == <<"failed", name, ServiceDisplay(s), err>>
SentLineWithCode(name, s) == <<"sent", name, ServiceDisplay(s), fetched.data.code>>
SentLine(name, s) == <<"sent", name, ServiceDisplay(s), "Code sent to DM">>
FallbackLine(line) == Append(line, FALLBACK_MARKER)

\* send_stream_message: what the call does, given how its platform calls end
SendOutcomes == {"list_failed", "sent", "rejected", "send_raised"}
SendStreamMessage(stream_name, o) ==
    IF o = "list_failed" THEN "list_failed"
    ELSE IF Lower(stream_name) \notin streams THEN "no_stream"
    ELSE o
SendReturnedTrueNever(r) == FALSE
SendReturnedTrue(r) == r = "sent"
SendRaised(r) == r \in {"list_failed", "send_raised"}


\* ------------------------------------------------------------------------
\* The handler leaves: it returns to call_on_each_message, or an exception
\* escapes it, unwinds call_on_each_message and main, and is caught by the
\* __main__ loop (the client and its event queue are abandoned)
\* ------------------------------------------------------------------------
ReturnRedeliver ==
    /\ pc' = "returned"
    /\ hstate' = "returned"
    /\ queue' = <<ev.id>> \o queue
    /\ UNCHANGED failed

Return ==
    /\ pc' = "returned"
    /\ hstate' = "returned"
    /\ UNCHANGED <<queue, failed>>

Raise ==
    /\ pc' = "raised"
    /\ hstate' = "raised"
    /\ failed' = failed \cup {ev.id}
    /\ UNCHANGED queue

ClearHandler ==
    /\ ev' = NoEvent
    /\ label_client' = <<>> /\ label_service' = <<>>
    /\ user_id' = Uid.none /\ display_name' = None
    /\ fetched' = NoFetch /\ audit' = <<>>
    /\ dms' = <<>> /\ posts' = <<>> /\ lookups' = <<>> /\ fetches' = <<>>
    /\ hstate' = "idle"

\* the handler has returned: call_on_each_message goes on to the next event
HandlerReturned ==
    /\ pc = "returned"
    /\ pc' = "wait"
    /\ ClearHandler
    /\ UNCHANGED <<platform, transport, me_id, record, parsev, gatewayv>>

\* the exception reaches "except Exception" of the __main__ loop
HandlerRaised ==
    /\ pc = "raised"
    /\ pc' = "backoff"
    /\ queue' = <<>>
    /\ ClearHandler
    /\ UNCHANGED <<platform, nextId, me_id, record, parsev, gatewayv>>

\* ------------------------------------------------------------------------
\* __main__ loop and main()
\* ------------------------------------------------------------------------
\* main(): create_client()
CreateClient ==
    /\ pc = "start"
    /\ \E ok \in BOOLEAN : pc' = IF ok THEN "identity" ELSE "backoff"
    /\ UNCHANGED <<platform, transport, me_id, ev, locals, hist, hstate, record, parsev, gatewayv>>

\* main(): get_self_identity(), then client.call_on_each_message(handler)
\* registers a fresh, empty event queue
GetSelfIdentity ==
    /\ pc = "identity"
    /\ \E o \in CallOutcomes :
         /\ me_id' = IF o = "success" THEN Uid.bot ELSE Uid.none
         /\ pc' = IF o = "raise" THEN "backoff" ELSE "wait"
    /\ queue' = <<>>
    /\ UNCHANGED <<platform, nextId, ev, locals, hist, hstate, record, parsev, gatewayv>>

\* except Exception: log.error(...); time.sleep(2)
Backoff ==
    /\ pc = "backoff"
    /\ pc' = "start"
    /\ UNCHANGED <<platform, transport, me_id, ev, locals, hist, hstate, record, parsev, gatewayv>>

\* ------------------------------------------------------------------------
\* Environment
\* ------------------------------------------------------------------------
\* a chat event arrives at the platform; it is queued for the callback only
\* while a callback is registered (the handler never looks at the queue, so
\* an arrival during a handler run is taken as one just before it)
Arrive ==
    /\ nextId < MaxEvents
    /\ pc \in {"start", "identity", "wait", "backoff"}
    /\ nextId' = nextId + 1
    /\ queue' = IF pc = "wait" THEN Append(queue, nextId + 1) ELSE queue
    /\ UNCHANGED <<platform, pc, me_id, ev, locals, hist, hstate, record, parsev, gatewayv>>

\* streams are created and deleted, users subscribe and unsubscribe, at any
\* time, also between two calls of one handler run
PlatformChange ==
    /\ pc \notin {"returned", "raised"}
    /\ \E p \in PlatformStates :
         /\ <<p.streams, p.subs>> # <<streams, subs>>
         /\ streams' = p.streams /\ subs' = p.subs
    /\ UNCHANGED <<transport, pc, me_id, ev, locals, hist, hstate, record, parsev, gatewayv>>

\* ------------------------------------------------------------------------
\* handler(event)
\* ------------------------------------------------------------------------
\* lines 150-177: the next queued event is handed to the handler, which
\* filters it and looks for a command
Handler ==
    /\ pc = "wait" /\ queue # <<>>
    /\ \E e \in Events :
         /\ ev' = [id |-> Head(queue), event |-> e]
         /\ handled' = Append(handled, Head(queue))
         /\ dms' = <<>> /\ posts' = <<>> /\ lookups' = <<>> /\ fetches' = <<>>
         /\ user_id' = Uid.none /\ display_name' = None /\ fetched' = NoFetch /\ audit' = <<>>
         /\ failed' = failed
         /\ IF Dropped(e, me_id)
            THEN /\ pc' = "returned" /\ hstate' = "returned" /\ queue' = Tail(queue)
                 /\ label_client' = <<>> /\ label_service' = <<>>
            ELSE LET cmd == Command[e]
                 IN  /\ queue' = Tail(queue)
                     /\ label_client' = IF cmd.cmd = "GenerateCode" THEN cmd.client ELSE <<>>
                     /\ label_service' = IF cmd.cmd = "GenerateCode" THEN cmd.service ELSE <<>>
                     /\ pc' = AfterParse(cmd)
                     /\ hstate' = IF AfterParse(cmd) = "returned" THEN "returned" ELSE "running"
    /\ UNCHANGED <<platform, nextId, me_id, parsev, gatewayv>>

\* send_dm: client.send_message returns (its result is not looked at) or raises
DmOutcomes == {"returned", "raise"}
SendDm(content, o) ==
    dms' = Append(dms, [to |-> ev.event.message.sender_email, content |-> content, outcome |-> o])

\* lines 169-171
HelpReply ==
    /\ pc = "help_dm"
    /\ \E o \in DmOutcomes :
         /\ SendDm(HELP_TEXT, o)
         /\ IF o = "raise" THEN Raise ELSE Return
    /\ UNCHANGED <<platform, nextId, me_id, ev, locals, posts, lookups, fetches, handled, parsev, gatewayv>>

\* line 180: stream_map = list_streams(client)
ListStreams ==
    /\ pc = "list_streams"
    /\ \E o \in CallOutcomes :
         IF o = "success"
         THEN pc' = "get_users" /\ UNCHANGED <<hstate, queue, failed>>
         ELSE Raise
    /\ UNCHANGED <<platform, nextId, me_id, ev, locals, hist, handled, parsev, gatewayv>>

\* line 181: user_id, display_name = get_user_id_and_name(client, sender_email)
\* and the first half of the test of line 182
GetUser ==
    /\ pc = "get_users"
    /\ \E o \in CallOutcomes :
         IF o = "raise"
         THEN Raise /\ UNCHANGED <<user_id, display_name>>
         ELSE LET r == GetUserIdAndName(o, ev.event.message.sender_email)
              IN  /\ user_id' = r.user_id
                  /\ display_name' = r.name
                  /\ pc' = IF r.user_id = Uid.none THEN "deny_dm" ELSE "in_client_stream"
                  /\ UNCHANGED <<hstate, queue, failed>>
    /\ UNCHANGED <<platform, nextId, me_id, ev, label_client, label_service, fetched,
                   audit, hist, handled, parsev, gatewayv>>

\* line 182: in_client_stream(client, label_client, user_id, stream_map)
AccessCheck ==
    /\ pc = "in_client_stream"
    /\ \E o \in CallOutcomes :
         IF o = "raise"
         THEN Raise /\ UNCHANGED lookups
         ELSE LET res == GetSubscribers(o, label_client)
              IN  /\ lookups' = Append(lookups, [stream |-> label_client, res |-> res])
                  /\ pc' = IF InClientStream(res, user_id) THEN "fetch" ELSE "deny_dm"
                  /\ UNCHANGED <<hstate, queue, failed>>
    /\ UNCHANGED <<platform, nextId, me_id, ev, locals, dms, posts, fetches, handled, parsev, gatewayv>>

\* lines 183-191: the access-denied message, and the denial line to audit
DenyReply ==
    /\ pc = "deny_dm"
    /\ \E o \in DmOutcomes :
         /\ SendDm(DeniedDm(label_client, label_service), o)
         /\ IF o = "raise"
            THEN Raise /\ UNCHANGED audit
            ELSE /\ audit' = DeniedLine(display_name, label_client, label_service)
                 /\ pc' = "audit_primary"
                 /\ UNCHANGED <<hstate, queue, failed>>
    /\ UNCHANGED <<platform, nextId, me_id, ev, label_client, label_service, user_id,
                   display_name, fetched, posts, lookups, fetches, handled, parsev, gatewayv>>

\* lines 197-198 and 206-208: fetch_totp, and reading the answer
Fetch ==
    /\ pc = "fetch"
    /\ \E o \in GatewayOutcomes :
         LET r == FetchTotp(o)
         IN  /\ fetches' = Append(fetches, [client |-> label_client, service |-> label_service,
                                            requester |-> ev.event.message.sender_email,
                                            answer |-> o])
             /\ fetched' = r
             /\ IF ~ r.ok THEN pc' = "error_dm" /\ UNCHANGED <<hstate, queue, failed>>
                ELSE IF ~ r.is_dict THEN Raise
                ELSE pc' = "code_dm" /\ UNCHANGED <<hstate, queue, failed>>
    /\ UNCHANGED <<platform, nextId, me_id, ev, label_client, label_service, user_id,
                   display_name, audit, dms, posts, lookups, handled, parsev, gatewayv>>

\* lines 199-200
ErrorReply ==
    /\ pc = "error_dm"
    /\ \E o \in DmOutcomes :
         /\ SendDm(ErrorDm(fetched.err), o)
         /\ IF o = "raise"
            THEN Raise /\ UNCHANGED audit
            ELSE /\ audit' = FailedLine(display_name, label_service, fetched.err)
                 /\ pc' = "audit_primary"
                 /\ UNCHANGED <<hstate, queue, failed>>
    /\ UNCHANGED <<platform, nextId, me_id, ev, label_client, label_service, user_id,
                   display_name, fetched, posts, lookups, fetches, handled, parsev, gatewayv>>

\* lines 209-218
CodeReply ==
    /\ pc = "code_dm"
    /\ \E o \in DmOutcomes :
         /\ SendDm(CodeDm(label_client, label_service, fetched.data), o)
         /\ IF o = "raise"
            THEN Raise /\ UNCHANGED audit
            ELSE /\ audit' = SentLine(display_name, label_service)
                 /\ pc' = "audit_primary"
                 /\ UNCHANGED <<hstate, queue, failed>>
    /\ UNCHANGED <<platform, nextId, me_id, ev, label_client, label_service, user_id,
                   display_name, fetched, posts, lookups, fetches, handled, parsev, gatewayv>>

\* lines 192, 201, 219: send_stream_message(client, label_client, AUDIT_TOPIC, text)
AuditPrimary ==
    /\ pc = "audit_primary"
    /\ \E o \in SendOutcomes :
         LET r == SendStreamMessage(label_client, o)
         IN  /\ posts' = Append(posts, [stream |-> label_client, topic |-> AUDIT_TOPIC,
                                        content |-> audit, result |-> r])
             /\ IF SendRaised(r) THEN Raise
                ELSE IF SendReturnedTrue(r) THEN Return
                ELSE pc' = "audit_fallback" /\ UNCHANGED <<hstate, queue, failed>>
    /\ UNCHANGED <<platform, nextId, me_id, ev, locals, dms, lookups, fetches, handled, parsev, gatewayv>>

\* lines 193, 202, 220: the same line, marked, to FALLBACK_STREAM
AuditFallback ==
    /\ pc = "audit_fallback"
    /\ \E o \in SendOutcomes :
         LET r == SendStreamMessage(FALLBACK_STREAM, o)
         IN  /\ posts' = Append(posts, [stream |-> FALLBACK_STREAM, topic |-> AUDIT_TOPIC,
                                        content |-> FallbackLine(audit), result |-> r])
             /\ IF SendRaised(r) THEN Raise ELSE Return
    /\ UNCHANGED <<platform, nextId, me_id, ev, locals, dms, lookups, fetches, handled, parsev, gatewayv>>

Next ==
    \/ CreateClient \/ GetSelfIdentity \/ Backoff
    \/ Arrive \/ PlatformChange
    \/ Handler \/ HandlerReturned \/ HandlerRaised \/ HelpReply
    \/ ListStreams \/ GetUser \/ AccessCheck \/ DenyReply
    \/ Fetch \/ ErrorReply \/ CodeReply
    \/ AuditPrimary \/ AuditFallback

Spec == Init /\ [][Next]_vars


\* ------------------------------------------------------------------------
\* The command patterns on their own: a text is drawn, then lines 155 and
\* 168-177 are applied to it
\* ------------------------------------------------------------------------
MaxSegs == 3

SegSet ==
    { <<"a">>, <<"B","2">>, L_help, <<"H","E","L","P">>, <<"c","_">>, <<>> }
PreSet ==
    { <<>>, Sp, Mention \o Sp, <<"x">>,
      L_mfa_help \o Sp, <<"!","M","f","a","-","B","2","-","a">> \o Sp }
PostSet ==
    { <<>>, <<"\n">>, <<"U+00E9">>, <<".">>, Sp \o <<"!","M","F","A">>, Sp \o <<"o","k">> }
OtherBodies ==
    { L_help, <<"H","e","l","p">>, <<"h","e","l","l","o">> }

\* "!mfa" followed by up to n dash-led segments
RECURSIVE MfaBodies(_)
MfaBodies(n) ==
    IF n = 0 THEN { L_mfa }
    ELSE LET shorter == MfaBodies(n - 1)
         IN  shorter \cup { b \o <<"-">> \o g : b \in shorter, g \in SegSet }

ParseTexts ==
    { pre \o b \o post : pre \in PreSet, b \in MfaBodies(MaxSegs) \cup OtherBodies, post \in PostSet }

ParseInit ==
    /\ streams = {} /\ subs = [n \in StreamNames |-> {}]
    /\ nextId = 0 /\ queue = <<>>
    /\ pc = "start" /\ me_id = Uid.none
    /\ HandlerIdle
    /\ handled = <<>> /\ failed = {}
    /\ p_text \in ParseTexts /\ p_cmd = NoResult
    /\ GatewayIdle

Parse ==
    /\ p_cmd = NoResult
    /\ p_cmd' = parse(Strip(p_text))
    /\ UNCHANGED <<platform, transport, pc, me_id, ev, locals, hist, hstate, record, p_text, gatewayv>>

ParseNext == Parse

ParseSpec == ParseInit /\ [][ParseNext]_vars


\* ------------------------------------------------------------------------
\* The gateway (src/gateway/app.py): each request reads the environment,
\* checks the bearer token, looks the label up and answers
\* ------------------------------------------------------------------------
MaxRequests == 2

\* str.split(sep), sep one character
RECURSIVE Split(_, _)
Split(t, sep) ==
    IF \A i \in 1..Len(t) : t[i] # sep THEN <<t>>
    ELSE LET k == CHOOSE i \in 1..Len(t) : t[i] = sep /\ \A j \in 1..(i - 1) : t[j] # sep
         IN  <<Sub(t, 1, k - 1)>> \o Split(Sub(t, k + 1, Len(t) - k), sep)

\* str.split(sep, 1) of a text that holds sep
SplitOnce(t, sep) ==
    LET k == CHOOSE i \in 1..Len(t) : t[i] = sep /\ \A j \in 1..(i - 1) : t[j] # sep
    IN  <<Sub(t, 1, k - 1), Sub(t, k + 1, Len(t) - k)>>

\* sep in text
HasChar(t, sep) == \E i \in 1..Len(t) : t[i] = sep

\* str.startswith(prefix)
StartsWith(t, prefix) == Len(t) >= Len(prefix) /\ Sub(t, 1, Len(prefix)) = prefix

\* os.getenv(name, default)
Getenv(v, default) == IF v.set THEN v.value ELSE default

\* _load_label_map: label -> seed, a later pair replacing an earlier one
load_label_map(env) ==
    LET raw == Getenv(env.LABELS, <<>>)
        parts == Split(raw, ",")
        stripped == SelectSeq([i \in DOMAIN parts |-> Strip(parts[i])], LAMBDA q : q # <<>>)
        pairs == SelectSeq(stripped, LAMBDA q : HasChar(q, ":"))
        label(i) == Strip(SplitOnce(pairs[i], ":")[1])
        seed(i) == Strip(SplitOnce(pairs[i], ":")[2])
    IN  [l \in {label(i) : i \in 1..Len(pairs)} |->
            seed(CHOOSE i \in 1..Len(pairs) :
                    label(i) = l /\ \A j \in (i + 1)..Len(pairs) : label(j) # l)]

\* int(text) for an optionally signed run of decimal digits, anything else
\* raises ValueError
DigitValue(ch) ==
    CASE ch = "0" -> 0 [] ch = "1" -> 1 [] ch = "2" -> 2 [] ch = "3" -> 3 [] ch = "4" -> 4
      [] ch = "5" -> 5 [] ch = "6" -> 6 [] ch = "7" -> 7 [] ch = "8" -> 8 [] ch = "9" -> 9
RECURSIVE Magnitude(_)
Magnitude(t) ==
    IF t = <<>> THEN 0 ELSE 10 * Magnitude(Sub(t, 1, Len(t) - 1)) + DigitValue(t[Len(t)])
IntOf(text) ==
    LET t == Strip(text)
        signed == t # <<>> /\ t[1] \in {"+", "-"}
        ds == IF signed THEN Tail(t) ELSE t
    IN  IF ds = <<>> \/ \E i \in 1..Len(ds) : ds[i] \notin Digits
        THEN [ok |-> FALSE, value |-> 0]
        ELSE [ok |-> TRUE,
              value |-> IF signed /\ t[1] = "-" THEN 0 - Magnitude(ds) ELSE Magnitude(ds)]

\* _params: (period, digits), or the ValueError of int()
params(env) ==
    LET period == IntOf(Getenv(env.TOTP_PERIOD, <<"3","0">>))
        digits == IntOf(Getenv(env.TOTP_DIGITS, <<"6">>))
    IN  [ok |-> period.ok /\ digits.ok, period |-> period.value, digits |-> digits.value]


\* pyotp: the secret is base32 (either letter case), padded to a multiple of
\* eight characters before it is decoded
Base32Chars == Range(UC) \cup Range(LC) \cup {"2","3","4","5","6","7"}
Base32Ok(seed) ==
    /\ \A i \in 1..Len(seed) : seed[i] \in Base32Chars
    /\ Len(seed) % 8 \notin {1, 3, 6}

RECURSIVE Pow10(_)
Pow10(n) == IF n = 0 THEN 1 ELSE 10 * Pow10(n - 1)

DigitChars == <<"0","1","2","3","4","5","6","7","8","9">>
\* the last d decimal digits of n, leading zeros kept
RECURSIVE ZeroPad(_, _)
ZeroPad(n, d) ==
    IF d = 0 THEN <<>> ELSE Append(ZeroPad(n \div 10, d - 1), DigitChars[(n % 10) + 1])

\* _totp_now(seed, period, digits), h the truncated HMAC value of the time
\* step (digits in 1..10; pyotp refuses more than 10)
totp_now(seed, period, digits, h) ==
    IF ~ Base32Ok(seed) \/ period <= 0 \/ digits > 10
    THEN [raised |-> TRUE, code |-> <<>>]
    ELSE [raised |-> FALSE, code |-> ZeroPad(h % Pow10(digits), digits)]

\* the environments the gateway is started in
SetTo(text) == [set |-> TRUE, value |-> text]
Seed_1 == <<"J","B","S","W">>
Seed_2 == <<"G","E">>
LabelsValues ==
    { Unset,
      SetTo(<<"a","-","b",":">> \o Seed_1),
      SetTo(<<" ","a","-","b"," ",":"," ">> \o Seed_1 \o <<" ",","," ","c","-","d",":">> \o Seed_2),
      SetTo(<<"a","-","b",":">> \o Seed_2 \o <<",","a","-","b",":">> \o Seed_1),
      SetTo(<<"a","-","b",",","c","-","d",":">> \o Seed_2),
      SetTo(<<"a","-","b",":","n","o","!">>),
      SetTo(<<"c","-","d",":","G",":","E">>) }
Key_1 == <<"k","1">>
ApiKeyValues == { Unset, SetTo(Sp), SetTo(Key_1), SetTo(Sp \o Key_1 \o Sp) }
PeriodValues == { Unset, SetTo(<<"6","0">>), SetTo(<<"a","b","c">>), SetTo(<<"0">>) }
DigitsValues == { Unset, SetTo(<<"8">>) }
Envs ==
    [LABELS : LabelsValues, API_KEY : ApiKeyValues,
     TOTP_PERIOD : PeriodValues, TOTP_DIGITS : DigitsValues]

\* _load_label_map and _params in each environment
LabelMaps == [e \in Envs |-> load_label_map(e)]
Params == [e \in Envs |-> params(e)]

\* responses
HttpException(status_code, detail) ==
    [status |-> status_code, body |-> [kind |-> "detail", detail |-> detail]]
\* an exception that is no HTTPException
InternalServerError == [status |-> 500, body |-> [kind |-> "internal"]]
\* a query parameter that fails its declared validation
ValidationError == [status |-> 422, body |-> [kind |-> "validation"]]
Passed == [status |-> 0, body |-> [kind |-> "passed"]]

L_Bearer_sp == <<"B","e","a","r","e","r"," ">>

\* _require_api_key: Passed, or the HTTPException it raises
require_api_key(env, auth_header) ==
    LET expected == Strip(Getenv(env.API_KEY, <<>>))
    IN  IF expected = <<>> THEN Passed
        ELSE IF ~ auth_header.set \/ auth_header.value = <<>>
                  \/ ~ StartsWith(auth_header.value, L_Bearer_sp)
            THEN HttpException(401, "missing bearer token")
        ELSE IF Strip(SplitOnce(auth_header.value, " ")[2]) # expected
            THEN HttpException(403, "invalid token")
        ELSE Passed

\* GET /code?label=<label>
code_lookup_first(env, req, h) ==
    LET auth == require_api_key(env, req.authorization)
        labels == LabelMaps[env]
        pd == Params[env]
        c == totp_now(labels[req.label], pd.period, pd.digits, h)
    IN  IF req.label = <<>> THEN ValidationError
        ELSE IF req.label \notin DOMAIN labels THEN HttpException(404, "unknown label")
        ELSE IF auth # Passed THEN auth
        ELSE IF ~ pd.ok THEN InternalServerError
        ELSE IF c.raised THEN InternalServerError
        ELSE [status |-> 200, body |-> [kind |-> "code", code |-> c.code, period |-> pd.period]]
code(env, req, h) ==
    LET auth == require_api_key(env, req.authorization)
        labels == LabelMaps[env]
        pd == Params[env]
        c == totp_now(labels[req.label], pd.period, pd.digits, h)
    IN  IF req.label = <<>> THEN ValidationError
        ELSE IF auth # Passed THEN auth
        ELSE IF req.label \notin DOMAIN labels THEN HttpException(404, "unknown label")
        ELSE IF ~ pd.ok THEN InternalServerError
        ELSE IF c.raised THEN InternalServerError
        ELSE [status |-> 200, body |-> [kind |-> "code", code |-> c.code, period |-> pd.period]]

\* f"{client}-{service}"
Label(client, service) == client \o <<"-">> \o service

\* GET /totp/<client>/<service>
totp_any_label(env, req, h, now) ==
    LET auth == require_api_key(env, req.authorization)
        labels == LabelMaps[env]
        label == IF Label(req.client, req.service) \in DOMAIN labels
                 THEN Label(req.client, req.service)
                 ELSE CHOOSE l \in DOMAIN labels : TRUE
        pd == Params[env]
        c == totp_now(labels[label], pd.period, pd.digits, h)
    IN  IF auth # Passed THEN auth
        ELSE IF DOMAIN labels = {} THEN HttpException(404, "unknown label")
        ELSE IF ~ pd.ok THEN InternalServerError
        ELSE IF c.raised THEN InternalServerError
        ELSE [status |-> 200,
              body |-> [kind |-> "totp", client |-> req.client, service |-> req.service,
                        code |-> c.code, valid_for |-> pd.period, timestamp |-> now]]
totp(env, req, h, now) ==
    LET auth == require_api_key(env, req.authorization)
        label == Label(req.client, req.service)
        labels == LabelMaps[env]
        pd == Params[env]
        c == totp_now(labels[label], pd.period, pd.digits, h)
    IN  IF auth # Passed THEN auth
        ELSE IF label \notin DOMAIN labels THEN HttpException(404, "unknown label")
        ELSE IF ~ pd.ok THEN InternalServerError
        ELSE IF c.raised THEN InternalServerError
        ELSE [status |-> 200,
              body |-> [kind |-> "totp", client |-> req.client, service |-> req.service,
                        code |-> c.code, valid_for |-> pd.period, timestamp |-> now]]

\* the requests made of it
AuthorizationValues ==
    { Unset,
      SetTo(L_Bearer_sp \o Key_1),
      SetTo(L_Bearer_sp \o Sp \o Key_1),
      SetTo(L_Bearer_sp \o <<"k","2">>),
      SetTo(<<"b","e","a","r","e","r"," ">> \o Key_1),
      SetTo(<<"B","e","a","r","e","r">>),
      SetTo(Key_1) }
PathClients == { <<"a">>, <<"c">>, <<"x">> }
PathServices == { <<"b">>, <<"d">> }
QueryLabels == { <<"a","-","b">>, <<"c","-","d">>, <<"x","-","b">>, <<>> }
\* truncated HMAC values, and the times of day the gateway may read
HotpValues == { 42, 2147483647 }
Times == { IsoNow, <<"2024-01-01T00:00:30", "+00:00">> }

GatewayInit ==
    /\ streams = {} /\ subs = [n \in StreamNames |-> {}]
    /\ nextId = 0 /\ queue = <<>>
    /\ pc = "start" /\ me_id = Uid.none
    /\ HandlerIdle
    /\ handled = <<>> /\ failed = {}
    /\ p_text = <<>> /\ p_cmd = NoResult
    /\ g_env \in Envs /\ g_req = NoRequest /\ g_resp = NoResponse /\ g_served = 0

GatewayUnchanged ==
    UNCHANGED <<platform, transport, pc, me_id, ev, locals, hist, hstate, record, parsev, g_env>>

TotpRequest ==
    /\ g_served < MaxRequests
    /\ \E c \in PathClients, s \in PathServices, a \in AuthorizationValues,
          h \in HotpValues, now \in Times :
         LET req == [route |-> "/totp", client |-> c, service |-> s, label |-> <<>>,
                     authorization |-> a]
         IN  /\ g_req' = req
             /\ g_resp' = totp(g_env, req, h, now)
    /\ g_served' = g_served + 1
    /\ GatewayUnchanged

CodeRequest ==
    /\ g_served < MaxRequests
    /\ \E l \in QueryLabels, a \in AuthorizationValues, h \in HotpValues :
         LET req == [route |-> "/code", client |-> <<>>, service |-> <<>>, label |-> l,
                     authorization |-> a]
         IN  /\ g_req' = req
             /\ g_resp' = code(g_env, req, h)
    /\ g_served' = g_served + 1
    /\ GatewayUnchanged

GatewayNext == TotpRequest \/ CodeRequest

GatewaySpec == GatewayInit /\ [][GatewayNext]_vars


\* ------------------------------------------------------------------------
\* Properties of the command patterns
\* ------------------------------------------------------------------------
\* the places where a text holds "!mfa-<c>-<s>": c and s non-empty runs over
\* [a-z0-9_] in any letter case, s taken whole, c not "help" in any case
RECURSIVE SegRun(_, _)
\* the length of the longest run over [a-z0-9_], any letter case, from position p
SegRun(t, p) ==
    IF p <= Len(t) /\ LowerChar(t[p]) \in SegChars THEN 1 + SegRun(t, p + 1) ELSE 0

Occurrences(t) ==
    { o \in { [at |-> i,
               n1 |-> SegRun(t, i + Len(L_mfa_dash)),
               n2 |-> SegRun(t, i + Len(L_mfa_dash) + SegRun(t, i + Len(L_mfa_dash)) + 1)] :
                 i \in {k \in 1..Len(t) : LitAt(t, k, L_mfa_dash)} } :
        LET p == o.at + Len(L_mfa_dash)
        IN  /\ o.n1 >= 1 /\ o.n2 >= 1
            /\ p + o.n1 <= Len(t) /\ t[p + o.n1] = "-"
            /\ Lower(Sub(t, p, o.n1)) # L_help }

OccClient(t, o) == Lower(Sub(t, o.at + Len(L_mfa_dash), o.n1))
OccService(t, o) == Lower(Sub(t, o.at + Len(L_mfa_dash) + o.n1 + 1, o.n2))
OccEnd(t, o) == o.at + Len(L_mfa_dash) + o.n1 + o.n2

\* the occurrences whose service is followed by the end of the text or by a
\* character that is no letter, digit or underscore
DelimitedOccurrences(t) ==
    { o \in Occurrences(t) : OccEnd(t, o) = Len(t) \/ t[OccEnd(t, o) + 1] \notin WordChars }

\* a whitespace-delimited token of the text that is "!mfa" or "!mfa-help"
HasHelpToken(t) ==
    \E i \in 1..Len(t), n \in 1..Len(t) :
        /\ i + n - 1 <= Len(t)
        /\ i = 1 \/ IsSpace(t[i - 1])
        /\ i + n - 1 = Len(t) \/ IsSpace(t[i + n])
        /\ Lower(Sub(t, i, n)) \in {L_mfa, L_mfa_help}

\* C9 (as stated): every text that contains "!mfa-<c>-<s>", c and s non-empty
\* over [a-z0-9_] in any letter case and c not "help", parses to the generate
\* command with client lower(c) and service lower(s), whatever else the text
\* holds.
C9_AnyOccurrenceParses ==
    p_cmd # NoResult =>
        \A o \in DelimitedOccurrences(p_text) :
            p_cmd = GenerateCode(OccClient(p_text, o), OccService(p_text, o))

\* C9 (amended): a text with no standalone "!mfa" / "!mfa-help" token parses
\* to the generate command of its leftmost "!mfa-<c>-<s>" whose service is
\* followed by the end of the text or by a character that is no letter, digit
\* or underscore: client lower(c), service lower(s), further dash-separated
\* segments ignored.
C9_LeftmostOccurrenceParses ==
    p_cmd # NoResult =>
        LET occ == DelimitedOccurrences(p_text)
        IN  (occ # {} /\ ~ HasHelpToken(p_text)) =>
                LET o == CHOOSE o \in occ : \A x \in occ : o.at <= x.at
                IN  p_cmd = GenerateCode(OccClient(p_text, o), OccService(p_text, o))

\* C9 witness: a parsed text with two commands and a third segment, the first
\* command written in upper case
C9_Witness ==
    /\ p_cmd # NoResult
    /\ p_cmd.cmd = "GenerateCode"
    /\ ~ HasHelpToken(p_text)
    /\ \E o, x \in DelimitedOccurrences(p_text) :
         /\ o.at < x.at
         /\ Sub(p_text, o.at + Len(L_mfa_dash), o.n1) # OccClient(p_text, o)
         /\ OccEnd(p_text, x) < Len(p_text) /\ p_text[OccEnd(p_text, x) + 1] = "-"


\* ------------------------------------------------------------------------
\* Properties of the handler and of the restart loop
\* ------------------------------------------------------------------------
\* the handler has finished with the event in hand: it returned or raised
Finished == pc \in {"returned", "raised"}
InHand == ev # NoEvent
Msg == ev.event.message
Acted == InHand /\ ~ Dropped(ev.event, me_id)
IsGenerate == Acted /\ Command[ev.event].cmd = "GenerateCode"
IsHelp == Acted /\ Command[ev.event].cmd = "Help"

\* a membership query of this event returned a subscriber set of the client's
\* channel that holds the requester
MembershipShown ==
    \E i \in 1..Len(lookups) :
        /\ lookups[i].stream = Command[ev.event].client
        /\ lookups[i].res.result = "success"
        /\ Msg.sender_id \in lookups[i].res.subscribers

HasDm(kind) == \E i \in 1..Len(dms) : dms[i].content.kind = kind
HasLine(kind) == \E i \in 1..Len(posts) : posts[i].content[1] = kind

\* C1: a generate command ends with exactly one direct message to the
\* requester and exactly one audit attempt: a primary post, then a fallback
\* post only if the primary failed.
C1_OneReplyOneAudit ==
    (Finished /\ IsGenerate) =>
        /\ Len(dms) = 1
        /\ dms[1].to = Msg.sender_email
        /\ Len(posts) \in {1, 2}
        /\ posts[1].stream = label_client
        /\ (Len(posts) = 2 => posts[1].result # "sent" /\ posts[2].stream = FALLBACK_STREAM)

\* C2: a code is fetched, and a code is sent, only for a requester whom a
\* membership query made for this same event showed among the subscribers of
\* the channel named by the client label; a denied request fetches nothing.
C2_FetchOnlyForShownMember ==
    InHand =>
        /\ (fetches # <<>> \/ HasDm("code") \/ pc \in {"fetch", "error_dm", "code_dm"})
               => (IsGenerate /\ MembershipShown)
        /\ HasDm("denied") => (fetches = <<>> /\ ~ HasDm("code"))
        /\ (Finished /\ IsGenerate /\ hstate = "returned" /\ ~ MembershipShown)
               => HasDm("denied")

\* C2 witness: the second event handled is a request of alice for a channel
\* she is subscribed to; the code is fetched and sent
C2_Witness ==
    /\ Finished /\ IsGenerate /\ ev.id = 2
    /\ MembershipShown /\ Len(fetches) = 1 /\ HasDm("code")
    /\ hstate = "returned"

\* C2 witness of the denial: the second event handled is a request of alice
\* for the channel that exists without her; she is denied, nothing is fetched
C2_WitnessDenied ==
    /\ Finished /\ IsGenerate /\ ev.id = 2
    /\ Len(lookups) = 1 /\ lookups[1].res.result = "success"
    /\ ~ MembershipShown /\ fetches = <<>> /\ HasDm("denied")

\* C3: when the access check does not show the requester among the channel's
\* subscribers (the channel is missing, or a lookup of the check failed), the
\* requester gets the access-denied message and no code is fetched.
C3_AccessCheckFailsClosed ==
    (Finished /\ IsGenerate /\ ~ MembershipShown) =>
        /\ Len(dms) >= 1 /\ dms[1].content.kind = "denied"
        /\ fetches = <<>>

\* C4: an audit entry whose primary post failed is attempted on the fallback
\* stream, same topic, same text with the marker; the fallback is not posted
\* when the primary succeeded; when both fail no exception escapes.
C4_AuditFallsBack ==
    (Finished /\ posts # <<>>) =>
        /\ posts[1].result = "sent" => Len(posts) = 1
        /\ posts[1].result # "sent" =>
              /\ Len(posts) = 2
              /\ posts[2].stream = FALLBACK_STREAM
              /\ posts[2].topic = posts[1].topic
              /\ posts[2].content = Append(posts[1].content, FALLBACK_MARKER)
              /\ (posts[2].result # "sent" => hstate = "returned" /\ Len(dms) = 1)

\* C5: a message whose text matches neither CMD_HELP nor CMD_MFA causes no
\* direct message, no audit post, no membership lookup and no code fetch.
C5_NonCommandIgnored ==
    (InHand /\ ev.event.type = "message"
        /\ ~ HelpFound[ev.event]
        /\ ~ MfaFound[ev.event]) =>
        /\ dms = <<>> /\ posts = <<>> /\ lookups = <<>> /\ fetches = <<>>
        /\ pc = "returned" /\ hstate = "returned"

\* C5 witness: a stream message that mentions the bot and holds no command
\* passed the filters and the handler returned
C5_Witness ==
    /\ Finished /\ Acted
    /\ Msg.type = "stream" /\ MsgText(ev.event) # <<>>
    /\ Command[ev.event].cmd = "None"
    /\ dms = <<>>

\* C6: a help command ends with exactly one send_dm call, to the sender, with
\* the help text; no audit post, no membership lookup, no code fetch.
C6_HelpRepliesOnce ==
    IsHelp =>
        /\ posts = <<>> /\ lookups = <<>> /\ fetches = <<>>
        /\ Len(dms) <= 1
        /\ Finished =>
              /\ Len(dms) = 1
              /\ dms[1].to = Msg.sender_email
              /\ dms[1].content = HELP_TEXT

\* C6 witness: "!Mfa-Help" in a stream, mentioning the bot, was answered
C6_Witness ==
    /\ Finished /\ IsHelp /\ hstate = "returned"
    /\ Msg.type = "stream" /\ Msg.sender_id = Uid.alice
    /\ Len(dms) = 1 /\ dms[1].outcome = "returned"

\* the answer the gateway gave for the event in hand
Answer == fetches[Len(fetches)].answer
IsSuccessWithCode(a) ==
    /\ a.kind = "status" /\ a.status = 200
    /\ a.body = "json" /\ a.json = "object" /\ a.data.has_code
IsNotFound(a) == a.kind = "status" /\ a.status = 404

\* C7: a "code sent" line and a code-bearing reply appear only after a success
\* answer that holds a code; a not-found answer yields "Unknown label." and a
\* failure line; every other answer yields a gateway-error reply and a
\* failure line.
C7_AuditMatchesOracle ==
    (InHand /\ fetches # <<>>) =>
        /\ (HasDm("code") \/ HasLine("sent")) => IsSuccessWithCode(Answer)
        /\ (Finished /\ IsNotFound(Answer)) =>
              /\ dms[1].content = ErrorDm(<<"Unknown label.">>)
              /\ ~ HasLine("sent")
        /\ (Finished /\ ~ IsNotFound(Answer) /\ ~ IsSuccessWithCode(Answer)) =>
              /\ Len(dms) = 1 /\ dms[1].content.kind = "error"
              /\ dms[1].content.body[1] = "Gateway error"

\* C8: an event that arrived after one whose handler raised is not lost: it
\* has been handed to the handler or is still queued for it.
C8_LaterEventsNotLost ==
    \A e \in 1..nextId :
        (\E f \in failed : f < e) =>
            (e \in Range(handled) \/ e \in Range(queue))

\* C10: each of "help", "!mfa" and "!mfa-help", in any letter case and with
\* whitespace around it, is answered with the help text.
C10_HelpPhrasesAnswered ==
    (Finished /\ Acted
        /\ Lower(MsgText(ev.event)) \in {L_help, L_mfa, L_mfa_help}) =>
        /\ Len(dms) = 1 /\ dms[1].content = HELP_TEXT

\* C12: whenever an audit post is about to be made or has been made, the
\* direct message of this event has already been sent to the requester; the
\* handler then ends with that one reply whether the audit posts succeed,
\* fail or raise.
C12_ReplyBeforeAudit ==
    (pc \in {"audit_primary", "audit_fallback"} \/ posts # <<>>) =>
        /\ IsGenerate
        /\ Len(dms) = 1
        /\ dms[1].to = Msg.sender_email
        /\ dms[1].outcome = "returned"

\* C12 witness: the primary post was rejected and the fallback post raised;
\* the requester has the code
C12_Witness ==
    /\ Finished /\ IsGenerate /\ hstate = "raised"
    /\ Len(posts) = 2 /\ posts[1].result = "rejected" /\ posts[2].result = "send_raised"
    /\ Len(dms) = 1 /\ dms[1].content.kind = "code"

\* the posts of this event that the platform accepted
Landed == {i \in 1..Len(posts) : posts[i].result = "sent"}

\* C13: a generate command sends at most one direct message and records at
\* most one audit entry: in the primary channel or in the fallback channel,
\* never in both; a denial or an error reply is never followed by a code.
C13_AtMostOneReplyOneEntry ==
    IsGenerate =>
        /\ Len(dms) <= 1
        /\ Cardinality(Landed) <= 1
        /\ Landed = {1} => posts[1].stream = label_client
        /\ Landed = {2} => posts[2].stream = FALLBACK_STREAM
        /\ (HasDm("denied") \/ HasDm("error")) => ~ HasDm("code")

\* C13 witness: a denial whose primary post found no stream and whose marked
\* line landed in the fallback channel
C13_Witness ==
    /\ Finished /\ IsGenerate /\ hstate = "returned"
    /\ HasDm("denied") /\ Len(dms) = 1
    /\ Len(posts) = 2 /\ posts[1].result = "no_stream" /\ Landed = {2}


\* the message in hand was authored by the bot's own account, or by an
\* account flagged as a bot
BotAuthored == Msg.sender_id = Uid.bot \/ Msg.sender_is_bot

\* C14: a message authored by the bot itself or by another bot causes no
\* direct message, no audit post, no membership lookup and no code fetch,
\* also when get_self_identity found no identity at startup.
C14_BotMessagesDropped ==
    (InHand /\ ev.event.type = "message" /\ BotAuthored) =>
        /\ dms = <<>> /\ posts = <<>> /\ lookups = <<>> /\ fetches = <<>>

\* the text of each event holds the mention marker of the bot
BotMentionIn == [e \in Events |-> Contains(MsgText(e), Mention)]

\* C15: a channel message that does not mention the bot, whatever command
\* it holds and whomever else it mentions, causes no direct message, no audit
\* post, no membership lookup and no code fetch.
C15_ChannelNeedsBotMention ==
    (InHand /\ ev.event.type = "message"
        /\ Msg.type # "private" /\ ~ BotMentionIn[ev.event]) =>
        /\ dms = <<>> /\ posts = <<>> /\ lookups = <<>> /\ fetches = <<>>


\* C16: events are handed to the handler one at a time, in arrival order and
\* each at most once: the ids handled so far are strictly increasing, the
\* event in hand is the last of them, every queued id is later than every
\* handled one, and an event whose handler raised is not queued again.
C16_OneAtATimeInOrder ==
    /\ \A i, j \in 1..Len(handled) : i < j => handled[i] < handled[j]
    /\ \A i, j \in 1..Len(queue) : i < j => queue[i] < queue[j]
    /\ \A i \in 1..Len(queue), j \in 1..Len(handled) : handled[j] < queue[i]
    /\ InHand => (handled # <<>> /\ ev.id = handled[Len(handled)])
    /\ hstate # "idle" => InHand
    /\ failed \subseteq Range(handled)

\* C16 witness: the handler of the first event raised, the bot restarted,
\* and the second event is in hand
C16_Witness ==
    /\ handled = <<1, 2>> /\ failed = {1}
    /\ InHand /\ ev.id = 2 /\ hstate = "running"

\* an audit line names the code
LineDiscloses(line, c) ==
    \/ line[2] = c
    \/ (line[1] = "sent" /\ line[4] = c)
    \/ (line[1] = "failed" /\ c \in Range(line[4]))

\* C17: no audit line posted to the client's channel or to the fallback
\* channel holds the code the gateway gave, and every direct message goes to
\* the sender of the event in hand.
C17_CodeOnlyToRequester ==
    InHand =>
        /\ \A i \in 1..Len(posts) : ~ LineDiscloses(posts[i].content, FullBody.code)
        /\ \A i \in 1..Len(dms) : dms[i].to = Msg.sender_email

\* C17 witness: the second event's requester was sent the code, and the
\* "code sent" line landed in the fallback channel
C17_Witness ==
    /\ Finished /\ IsGenerate /\ ev.id = 2
    /\ Len(dms) = 1 /\ dms[1].content.kind = "code"
    /\ dms[1].content.body[3] = FullBody.code
    /\ Landed = {2} /\ posts[2].content[1] = "sent"

\* the text of each event holds a standalone "!mfa" / "!mfa-help" token, and
\* a well-formed "!mfa-<client>-<service>"
HelpTokenIn == [e \in Events |-> HasHelpToken(MsgText(e))]
OccurrenceIn == [e \in Events |-> DelimitedOccurrences(MsgText(e)) # {}]

\* C19: a message that holds a standalone "!mfa" or "!mfa-help" token and a
\* well-formed generate command is answered with the help text only, with
\* no access check, no code fetch and no audit post; no message is ever
\* taken as a generate command for a client named "help".
C19_HelpTakesPrecedence ==
    /\ (Acted /\ HelpTokenIn[ev.event] /\ OccurrenceIn[ev.event]) =>
          /\ pc \in {"help_dm", "returned", "raised"}
          /\ posts = <<>> /\ lookups = <<>> /\ fetches = <<>>
          /\ \A i \in 1..Len(dms) : dms[i].content = HELP_TEXT
          /\ Finished => Len(dms) = 1
    /\ InHand => label_client # L_help

\* C19 witness: "!mfa !mfa-a-x" was answered with the help text
C19_Witness ==
    /\ Finished /\ Acted /\ hstate = "returned"
    /\ HelpTokenIn[ev.event] /\ OccurrenceIn[ev.event]
    /\ Len(dms) = 1 /\ dms[1].content = HELP_TEXT


\* ------------------------------------------------------------------------
\* Properties of the gateway
\* ------------------------------------------------------------------------
Served == g_req # NoRequest
KeyConfigured == Strip(Getenv(g_env.API_KEY, <<>>)) # <<>>
\* the Authorization header is "Bearer ", then the configured key
BearerScheme == g_req.authorization.set /\ StartsWith(g_req.authorization.value, L_Bearer_sp)
PresentsKey ==
    /\ BearerScheme
    /\ Strip(Sub(g_req.authorization.value, Len(L_Bearer_sp) + 1,
                 Len(g_req.authorization.value) - Len(L_Bearer_sp)))
         = Strip(Getenv(g_env.API_KEY, <<>>))
Authorised == ~ KeyConfigured \/ PresentsKey

RequestedLabel == g_req.client \o <<"-">> \o g_req.service
LabelKnown == RequestedLabel \in DOMAIN LabelMaps[g_env]
ConfiguredPeriod == IntOf(Getenv(g_env.TOTP_PERIOD, <<"3","0">>))
ConfiguredDigits == IntOf(Getenv(g_env.TOTP_DIGITS, <<"6">>))
\* the period and the digit count are integers pyotp works with, and the
\* stored seed is a base32 secret
ConfigurationUsable ==
    /\ ConfiguredPeriod.ok /\ ConfiguredPeriod.value >= 1
    /\ ConfiguredDigits.ok /\ ConfiguredDigits.value \in 1..10
    /\ Base32Ok(LabelMaps[g_env][RequestedLabel])

\* the response is a success carrying exactly client, service, code,
\* valid_for and timestamp: the code a string of decimal digits, valid_for the
\* configured period
SuccessWithCode ==
    /\ g_resp.status = 200
    /\ DOMAIN g_resp.body = {"kind", "client", "service", "code", "valid_for", "timestamp"}
    /\ g_resp.body.client = g_req.client /\ g_resp.body.service = g_req.service
    /\ g_resp.body.code # <<>>
    /\ \A i \in 1..Len(g_resp.body.code) : g_resp.body.code[i] \in Digits
    /\ g_resp.body.valid_for = ConfiguredPeriod.value
    /\ g_resp.body.timestamp \in Times
NotFound == g_resp = HttpException(404, "unknown label")

====
